---- MODULE Spec2Model ----
(***************************************************************************)
(* Copy-orchestration and status-tracking workflow of payload-video-stream *)
(* (streamingService, the afterOperation / beforeDelete hooks and the      *)
(* deferred status task), as a state machine over one stored upload.       *)
(*                                                                         *)
(* JavaScript values are strings: "true" / "false" for booleans,           *)
(* "undefined" for undefined, "" for the empty string.  A mimeType is a    *)
(* sequence of characters so that startsWith is computed, not assumed.     *)
(***************************************************************************)
EXTENDS Integers, Sequences, FiniteSets, Bags, TLC

VARIABLES docs, procs, queue, last, createPending, copied, snapshot, config

vars == <<docs, procs, queue, last, createPending, copied, snapshot, config>>

(* ------------------------------ bounds -------------------------------- *)

\* invocations (hook runs, timers, task runs) in flight at once
MaxProcs == 2
\* status tasks waiting in the host queue
MaxQueue == 2
\* direct calls of a service operation in flight at once
MaxCalls == 1
\* task runs counted in the poll loop (more than the task's retries)
MaxRuns == 5

(* ----------------------------- constants ------------------------------ *)

Undef == "undefined"
T == "true"
F == "false"

ProviderName == "cloudflare_stream"
CopyErrorMsg == "Error copying video to streaming service"
NotVideoMsg == "Not a video file"
QueueName == "payloadVideoStream"
CollectionSlug == "media"

VideoPrefix == <<"v", "i", "d", "e", "o", "/">>
MimeTypes ==
  { <<"v", "i", "d", "e", "o", "/", "m", "p", "4">>,
    <<"i", "m", "a", "g", "e", "/", "p", "n", "g">>,
    <<"v", "i", "d", "e", "o">> }

StoredIds == {"d1"}
DocIds == {"d1", "d2"}
VideoIds == {"v1", "v2"}
Operations == {"create", "findByID", "update"}

(* ------------------------- JavaScript helpers ------------------------- *)

\* JS truthiness of a value
Truthy(x) == x \notin {Undef, F, ""}

\* a || b
OrElse(a, b) == IF Truthy(a) THEN a ELSE b

\* String.prototype.startsWith
StartsWith(s, pre) == Len(s) >= Len(pre) /\ SubSeq(s, 1, Len(pre)) = pre

\* doc.mimeType?.startsWith('video/')
IsVideo(m) == StartsWith(m, VideoPrefix)

(* ------------------------------ video URLs ---------------------------- *)

\* the url stored on an uploaded record (relative to the host)
StoredUrl == <<"/", "v">>

\* stored urls of records: relative, absolute in either letter case, and not http
StoredUrls ==
  { StoredUrl,
    <<"h", "t", "t", "p", ":", "/", "/", "c">>,
    <<"h", "t", "t", "p", "s", ":", "/", "/", "c">>,
    <<"H", "T", "T", "P", "S", ":", "/", "/", "c">>,
    <<"h", "t", "t", "p", ":", "/", "c">>,
    <<"f", "t", "p", ":", "/", "/", "c">> }

\* the request the operation runs in: req.protocol ends with the colon
Request == [protocol |-> <<"h", "t", "t", "p", "s", ":">>, host |-> <<"a">>]

\* the Location header of the probe response when the storage redirects
Locations == {<<"h", "t", "t", "p", "s", ":", "/", "/", "s", "/", "v">>}

\* the letters the pattern names, folded as the i flag folds them
LowerChar(c) ==
  CASE c = "H" -> "h" [] c = "T" -> "t" [] c = "P" -> "p" [] c = "S" -> "s" [] OTHER -> c

LowerCase(s) == [i \in 1..Len(s) |-> LowerChar(s[i])]

\* /^https?:\/\//i.test(videoUrl)
HasHttpScheme(url) ==
  \/ StartsWith(LowerCase(url), <<"h", "t", "t", "p", ":", "/", "/">>)
  \/ StartsWith(LowerCase(url), <<"h", "t", "t", "p", "s", ":", "/", "/">>)

\* BaseUrl that prefixes every stored url
BaseUrlAlwaysPrefixed(req, url) == req.protocol \o <<"/", "/">> \o req.host \o url

\* getVideoUrl before the probe: `${req.protocol}//${req.host}${doc.url}` unless
\* the stored url already carries an http(s) scheme
BaseUrl(req, url) ==
  IF ~HasHttpScheme(url)
  THEN req.protocol \o <<"/", "/">> \o req.host \o url
  ELSE url

(* --------------------------- the stream group ------------------------- *)

StreamFields ==
  {"videoId", "thumbnailUrl", "readyToStream", "readyToStreamAt", "durationInSeconds",
   "width", "height", "size", "provider", "error", "requireSignedURLs"}

EmptyPatch == [f \in StreamFields |-> Undef]

\* a freshly created upload: the checkbox fields carry their defaultValue
InitStream == [EmptyPatch EXCEPT !.readyToStream = F, !.requireSignedURLs = F]

\* payload.update({data: {stream: patch}}): keys left undefined keep the stored value
MergeStream(old, patch) ==
  [f \in StreamFields |-> IF patch[f] = Undef THEN old[f] ELSE patch[f]]

(* ------------------------- adapter responses -------------------------- *)

ResultFields ==
  {"videoId", "readyToStream", "readyToStreamAt", "requireSignedURLs", "thumbnail",
   "durationInSeconds", "height", "width", "size", "errorReasonText"}

NoResult == [f \in ResultFields |-> Undef]

\* StreamResponse with result undefined
NoResultResponse == [hasResult |-> FALSE, result |-> NoResult]

WithResult(r) == [hasResult |-> TRUE, result |-> r]

\* values adapter.copyVideo may resolve to
CopyResponses ==
  { NoResultResponse,
    WithResult([NoResult EXCEPT !.videoId = "v1", !.readyToStream = F, !.thumbnail = "t.jpg"]),
    WithResult([NoResult EXCEPT !.videoId = "v2", !.readyToStream = F, !.requireSignedURLs = T]) }

\* values adapter.getStatus(videoId) may resolve to
StatusResponses(videoId) ==
  LET v == IF videoId = Undef THEN "v1" ELSE videoId
      base == [NoResult EXCEPT !.videoId = v]
  IN  { NoResultResponse,
        WithResult([base EXCEPT !.readyToStream = F]),
        WithResult([base EXCEPT !.readyToStream = F, !.errorReasonText = "encode failed"]),
        WithResult([base EXCEPT !.readyToStream = T, !.readyToStreamAt = "T",
                                !.thumbnail = "t.jpg", !.durationInSeconds = "30",
                                !.height = "720", !.width = "1280", !.size = "4096"]) }

(* ----------------------------- invocations ---------------------------- *)

NoRet == [success |-> Undef, error |-> Undef]

TaskInput(d) == [collectionSlug |-> CollectionSlug, documentId |-> d]

\* the fields of a document the handlers read: id, mimeType, url, stream.videoId
\* and stream.readyToStream
DocView(doc) ==
  [id |-> doc.id, mimeType |-> doc.mimeType, url |-> doc.url,
   stream |-> [videoId |-> doc.stream.videoId, readyToStream |-> doc.stream.readyToStream]]

NoDoc == [id |-> Undef, mimeType |-> <<>>, url |-> <<>>,
          stream |-> [videoId |-> Undef, readyToStream |-> Undef]]

NewProc(kind, pc, op, input, doc, rsu) ==
  [kind |-> kind, pc |-> pc, op |-> op, input |-> input, doc |-> doc, rsu |-> rsu,
   url |-> Undef, videoUrl |-> <<>>, resp |-> NoResultResponse, status |-> Undef,
   calls |-> <<>>,
   enqueued |-> <<>>, outcome |-> Undef, ret |-> NoRet]

NoProc == NewProc("none", "done", Undef, TaskInput(Undef), NoDoc, FALSE)

Call(p, c) == [p EXCEPT !.calls = Append(@, c)]

Called(p, c) == \E i \in 1..Len(p.calls) : p.calls[i] = c

Return(p) == [p EXCEPT !.pc = "done", !.outcome = "returned"]

Throw(p) == [p EXCEPT !.pc = "done", !.outcome = "threw"]

InFlight == BagToSet(procs)

Step(p, q) ==
  /\ procs' = IF q.pc = "done"
              THEN procs (-) SetToBag({p})
              ELSE (procs (-) SetToBag({p})) (+) SetToBag({q})
  /\ last' = IF q.pc = "done" THEN q ELSE NoProc

Spawn(q) ==
  /\ procs' = IF q.pc = "done" THEN procs ELSE procs (+) SetToBag({q})
  /\ last' = IF q.pc = "done" THEN q ELSE NoProc

Update(id, patch) == docs' = [docs EXCEPT ![id].stream = MergeStream(@, patch)]

(* --------------------------- plugin setup ------------------------------ *)

\* number of collections the plugin options may list
MaxCollections == 2

\* providerName of the adapters a configuration may hold
ProviderNames == {ProviderName, "other_stream"}

\* `payloadStreamUpdateStatusFor${adapter.providerName}`
TaskName(provider) == <<"payloadStreamUpdateStatusFor", provider>>

\* the task definition built for an adapter (adapters are told apart by their
\* providerName)
UpdateStreamStatusTask(adapter) == [slug |-> TaskName(adapter), retries |-> 3]

\* what the options hold for one collection: true, an object without adapter,
\* or an object with its own adapter
CollectionOptions == {"true", "{}"} \cup ProviderNames

\* collections in key order, and the default adapter
PluginOptions ==
  [collections : UNION {[1..n -> CollectionOptions] : n \in 0..MaxCollections},
   defaultAdapter : ProviderNames]

\* tasks the host configuration declares itself
IncomingTasks == {<<>>, <<[slug |-> <<"testTask">>, retries |-> 2]>>}

\* the adapter a collection entry selects
AdapterOf(collectionOptions, defaultAdapter) ==
  IF collectionOptions \in ProviderNames THEN collectionOptions ELSE defaultAdapter

\* getAllAdapters: the default adapter, then one adapter per listed collection
GetAllAdapters(pluginOptions) ==
  <<pluginOptions.defaultAdapter>>
    \o [i \in 1..Len(pluginOptions.collections) |->
          AdapterOf(pluginOptions.collections[i], pluginOptions.defaultAdapter)]

\* config.jobs.tasks after videoStream(pluginOptions)(config)
InjectTasks(c) ==
  [c EXCEPT !.tasks = @ \o [i \in 1..Len(GetAllAdapters(c.options)) |->
                               UpdateStreamStatusTask(GetAllAdapters(c.options)[i])],
            !.installed = TRUE]

\* the configuration the other specifications run under: one collection using
\* the default adapter
InstalledConfig ==
  InjectTasks([options |-> [collections |-> <<"true">>, defaultAdapter |-> ProviderName],
               tasks |-> <<>>, installed |-> FALSE])

\* the plugin function applied to the host configuration
VideoStream ==
  /\ ~config.installed
  /\ config' = InjectTasks(config)
  /\ UNCHANGED <<docs, procs, queue, last, createPending, copied, snapshot>>

\* nothing remembered about an earlier call
NoSnapshot == [first |-> [kind |-> "none", op |-> Undef, calls |-> <<>>], stream |-> <<>>, runs |-> 0]

Init ==
  /\ docs \in [StoredIds -> {[id |-> "d1", mimeType |-> m, url |-> StoredUrl, stream |-> InitStream] : m \in MimeTypes}]
  /\ procs = EmptyBag
  /\ queue = EmptyBag
  /\ last = NoProc
  /\ createPending = TRUE
  /\ copied = FALSE
  /\ snapshot = NoSnapshot
  /\ config = InstalledConfig

(* ------------------- streamingService: copy path ---------------------- *)

\* CopyPatch that also resets stream.error
CopyPatchClearsError(resp) ==
  [EmptyPatch EXCEPT !.error = "",
                     !.provider = OrElse(ProviderName, ""),
                     !.readyToStream = resp.result.readyToStream,
                     !.requireSignedURLs = OrElse(resp.result.requireSignedURLs, F),
                     !.thumbnailUrl = resp.result.thumbnail,
                     !.videoId = resp.result.videoId]

\* the stream patch written after a successful adapter.copyVideo
CopyPatch(resp) ==
  [EmptyPatch EXCEPT !.provider = OrElse(ProviderName, ""),
                     !.readyToStream = resp.result.readyToStream,
                     !.requireSignedURLs = OrElse(resp.result.requireSignedURLs, F),
                     !.thumbnailUrl = resp.result.thumbnail,
                     !.videoId = resp.result.videoId]

\* the stream patch written by the catch block
ErrorPatch == [EmptyPatch EXCEPT !.error = CopyErrorMsg]

CopySuccess(p) == Return([p EXCEPT !.ret = [success |-> T, error |-> Undef]])

CopyFailure(p, msg) == Return([p EXCEPT !.ret = [success |-> F, error |-> msg]])

\* CopyEnter without the mimeType gate
CopyEnterNoGate(p) ==
  IF p.rsu
  THEN [p EXCEPT !.pc = "fetch", !.videoUrl = BaseUrl(Request, p.doc.url)]
  ELSE [p EXCEPT !.pc = "copyVideo", !.videoUrl = BaseUrl(Request, p.doc.url)]

\* copyVideoToStreamingPlatform up to its first await: the mimeType gate, then
\* getVideoUrl, which awaits the signed-URL probe only when requireSignedURLs is set
CopyEnter(p) ==
  IF ~IsVideo(p.doc.mimeType)
  THEN CopyFailure(p, NotVideoMsg)
  ELSE IF p.rsu
       THEN [p EXCEPT !.pc = "fetch", !.videoUrl = BaseUrl(Request, p.doc.url)]
       ELSE [p EXCEPT !.pc = "copyVideo", !.videoUrl = BaseUrl(Request, p.doc.url)]

\* getVideoUrl: the probe of videoUrl answers with a Location header or without
\* one (r.headers.get('location') || ''), or the fetch rejects
CopyFetch(p) ==
  /\ p.pc = "fetch"
  /\ \/ \E location \in Locations :
          Step(p, [Call(p, "fetch") EXCEPT !.pc = "copyVideo", !.videoUrl = location])
     \/ Step(p, [Call(p, "fetch.nolocation") EXCEPT !.pc = "copyVideo", !.videoUrl = <<>>])
     \/ Step(p, [Call(p, "fetch.throw") EXCEPT !.pc = "catch"])
  /\ UNCHANGED <<docs, queue, createPending, copied, snapshot, config>>

\* what copyVideoToStreamingPlatform does with a resolved adapter.copyVideo
AfterCopyVideo(p, resp) ==
  IF resp.hasResult
  THEN [Call(p, "copyVideo") EXCEPT !.pc = "copy.update", !.resp = resp]
  ELSE CopySuccess([Call(p, "copyVideo") EXCEPT !.resp = resp])

\* await adapter.copyVideo(...)
CopyAdapter(p) ==
  /\ p.pc = "copyVideo"
  /\ \/ /\ Step(p, [Call(p, "copyVideo.throw") EXCEPT !.pc = "catch"])
        /\ UNCHANGED copied
     \/ \E resp \in CopyResponses :
          /\ Step(p, AfterCopyVideo(p, resp))
          /\ copied' = TRUE
  /\ UNCHANGED <<docs, queue, createPending, snapshot, config>>

\* await req.payload.update({data: {stream}}) inside the try block
CopyUpdate(p) ==
  /\ p.pc = "copy.update"
  /\ \/ /\ Update(p.doc.id, CopyPatch(p.resp))
        /\ Step(p, CopySuccess(Call(p, "update")))
     \/ /\ Step(p, [Call(p, "update.throw") EXCEPT !.pc = "catch"])
        /\ UNCHANGED docs
  /\ UNCHANGED <<queue, createPending, copied, snapshot, config>>

\* the catch block: persist stream.error, then return the failure
CopyCatch(p) ==
  /\ p.pc = "catch"
  /\ \/ /\ Update(p.doc.id, ErrorPatch)
        /\ Step(p, CopyFailure(Call(p, "update"), CopyErrorMsg))
     \/ /\ Step(p, Throw(Call(p, "update.throw")))
        /\ UNCHANGED docs
  /\ UNCHANGED <<queue, createPending, copied, snapshot, config>>

(* ------------------ streamingService: status path --------------------- *)

\* StatusPatch that also writes videoId, defaulted like thumbnailUrl
StatusPatchWithVideoId(resp) ==
  [EmptyPatch EXCEPT !.durationInSeconds = resp.result.durationInSeconds,
                     !.error = OrElse(resp.result.errorReasonText, ""),
                     !.height = resp.result.height,
                     !.provider = OrElse(ProviderName, ""),
                     !.readyToStream = resp.result.readyToStream,
                     !.readyToStreamAt = resp.result.readyToStreamAt,
                     !.requireSignedURLs = OrElse(resp.result.requireSignedURLs, F),
                     !.size = resp.result.size,
                     !.thumbnailUrl = OrElse(resp.result.thumbnail, ""),
                     !.videoId = OrElse(resp.result.videoId, ""),
                     !.width = resp.result.width]

\* the stream patch written by updateStatus
StatusPatch(resp) ==
  [EmptyPatch EXCEPT !.durationInSeconds = resp.result.durationInSeconds,
                     !.error = OrElse(resp.result.errorReasonText, ""),
                     !.height = resp.result.height,
                     !.provider = OrElse(ProviderName, ""),
                     !.readyToStream = resp.result.readyToStream,
                     !.readyToStreamAt = resp.result.readyToStreamAt,
                     !.requireSignedURLs = OrElse(resp.result.requireSignedURLs, F),
                     !.size = resp.result.size,
                     !.thumbnailUrl = OrElse(resp.result.thumbnail, ""),
                     !.width = resp.result.width]

\* ShouldRequeue that re-queues on every non-null response
ShouldRequeueAnyResponse(p) == p.status = "response"

\* ShouldRequeue that never re-queues
ShouldRequeueNever(p) == FALSE

\* ShouldRequeue that also re-queues when updateStatus returned null
ShouldRequeueAlsoOnNull(p) ==
  \/ p.status = "null"
  \/ p.status = "response" /\ p.resp.result.readyToStream = F

\* ShouldRequeue that stops once the runs exceed the task's retries
ShouldRequeueWithinRetries(p) ==
  /\ p.status = "response"
  /\ p.resp.result.readyToStream = F
  /\ snapshot.runs <= UpdateStreamStatusTask(ProviderName).retries

\* the re-queue decision of the task handler once updateStatus has returned
ShouldRequeue(p) ==
  /\ p.status = "response"
  /\ p.resp.result.readyToStream = F

\* what the caller of updateStatus does once it returns
AfterStatus(p) ==
  IF p.kind = "task" /\ ShouldRequeue(p)
  THEN [p EXCEPT !.pc = "queue"]
  ELSE Return(p)

\* StatusGet without the try/catch: a rejection of adapter.getStatus propagates
StatusGetUncaught(p) ==
  /\ p.pc = "getStatus"
  /\ \/ Step(p, Throw(Call(p, "getStatus.throw")))
     \/ \E resp \in StatusResponses(p.doc.stream.videoId) :
          Step(p, [Call(p, "getStatus") EXCEPT !.pc = "status.update", !.resp = resp])
  /\ UNCHANGED <<docs, queue, createPending, copied, snapshot, config>>

\* await adapter.getStatus(doc.stream.videoId)
StatusGet(p) ==
  /\ p.pc = "getStatus"
  /\ \/ Step(p, AfterStatus([Call(p, "getStatus.throw") EXCEPT !.status = "null"]))
     \/ \E resp \in StatusResponses(p.doc.stream.videoId) :
          Step(p, [Call(p, "getStatus") EXCEPT !.pc = "status.update", !.resp = resp])
  /\ UNCHANGED <<docs, queue, createPending, copied, snapshot, config>>

\* StatusUpdate that stamps readyToStreamAt with the call instead of the remote's value
StatusUpdateStampsCall(p) ==
  /\ p.pc = "status.update"
  /\ \/ /\ Update(p.doc.id, [StatusPatch(p.resp) EXCEPT !.readyToStreamAt = p.op])
        /\ Step(p, AfterStatus([Call(p, "update") EXCEPT !.status = "response"]))
     \/ /\ Step(p, AfterStatus([Call(p, "update.throw") EXCEPT !.status = "null"]))
        /\ UNCHANGED docs
  /\ UNCHANGED <<queue, createPending, copied, snapshot, config>>

\* await req.payload.update({data: {stream: {...}}}) inside updateStatus
StatusUpdate(p) ==
  /\ p.pc = "status.update"
  /\ \/ /\ Update(p.doc.id, StatusPatch(p.resp))
        /\ Step(p, AfterStatus([Call(p, "update") EXCEPT !.status = "response"]))
     \/ /\ Step(p, AfterStatus([Call(p, "update.throw") EXCEPT !.status = "null"]))
        /\ UNCHANGED docs
  /\ UNCHANGED <<queue, createPending, copied, snapshot, config>>

(* -------------------- streamingService: delete ------------------------ *)

\* streamingService.delete up to its first await: the videoId test throws into
\* the surrounding catch, otherwise adapter.delete(doc.stream.videoId) is awaited
DeleteEnter(p) ==
  IF Truthy(p.doc.stream.videoId)
  THEN Return(p)
  ELSE [p EXCEPT !.pc = "adapter.delete"]

\* DeleteAdapter without the try/catch: a rejection of adapter.delete propagates
DeleteAdapterUncaught(p) ==
  /\ p.pc = "adapter.delete"
  /\ \/ Step(p, Return(Call(p, "delete")))
     \/ Step(p, Throw(Call(p, "delete.throw")))
  /\ UNCHANGED <<docs, queue, createPending, copied, snapshot, config>>

\* await adapter.delete(...); a rejection is caught and logged
DeleteAdapter(p) ==
  /\ p.pc = "adapter.delete"
  /\ \E c \in {"delete", "delete.throw"} : Step(p, Return(Call(p, c)))
  /\ UNCHANGED <<docs, queue, createPending, copied, snapshot, config>>

(* --------------------------- lifecycle hooks -------------------------- *)

\* StatusHookGate without the test of stream.videoId
StatusHookGateNoVideoId(op, result) ==
  /\ op = "findByID"
  /\ ~Truthy(result.stream.readyToStream)
  /\ IsVideo(result.mimeType)

\* the condition of updateStatusHook
StatusHookGate(op, result) ==
  /\ op = "findByID"
  /\ ~Truthy(result.stream.readyToStream)
  /\ IsVideo(result.mimeType)
  /\ Truthy(result.stream.videoId)

\* CopyHookGate without the test of the operation
CopyHookGateAnyOperation(op, result) ==
  /\ ~Truthy(result.stream.readyToStream)
  /\ ~Truthy(result.stream.videoId)
  /\ IsVideo(result.mimeType)

\* the condition of the copyVideo hook
CopyHookGate(op, result) ==
  /\ op = "create"
  /\ ~Truthy(result.stream.readyToStream)
  /\ ~Truthy(result.stream.videoId)
  /\ IsVideo(result.mimeType)

HookProc(pc, op, result, rsu) ==
  NewProc("hook", pc, op, TaskInput(result.id), result, rsu)

\* the afterOperation chain [updateStatusHook, copyVideo] run on the result of one
\* operation; the create operation of the record happens once
AfterOperation(op, d) ==
  /\ BagCardinality(procs) < MaxProcs
  /\ op = "create" => createPending
  /\ createPending' = (createPending /\ op # "create")
  /\ LET result == DocView(docs[d]) IN
       IF StatusHookGate(op, result)
       THEN Spawn(HookProc("getStatus", op, result, FALSE))
       ELSE IF CopyHookGate(op, result)
            THEN \E rsu \in BOOLEAN :
                   /\ procs' = procs (+) SetToBag({[HookProc("timer", op, result, rsu) EXCEPT !.kind = "timer"]})
                   /\ last' = Return(HookProc("done", op, result, rsu))
            ELSE Spawn(Return(HookProc("done", op, result, FALSE)))
  /\ UNCHANGED <<docs, queue, copied, snapshot, config>>

\* the setTimeout callback of the copyVideo hook fires
TimerFire(p) ==
  /\ p.kind = "timer"
  /\ Step(p, CopyEnter([p EXCEPT !.kind = "copy"]))
  /\ UNCHANGED <<docs, queue, createPending, copied, snapshot, config>>

\* the beforeDelete hook: findByID, then streamingService.delete(doc)
DeleteHook(d) ==
  /\ BagCardinality(procs) < MaxProcs
  /\ LET p == NewProc("delete", "start", "delete", TaskInput(d), DocView(docs[d]), FALSE) IN
       \/ Spawn(Throw(Call(p, "findByID.throw")))
       \/ Spawn(DeleteEnter(Call(p, "findByID")))
  /\ UNCHANGED <<docs, queue, createPending, copied, snapshot, config>>

(* ------------------------ deferred status task ------------------------ *)

\* QueueTaskName that leaves the provider out
QueueTaskNameWithoutProvider(provider) == <<"payloadStreamUpdateStatusFor">>

\* the task name queueUpdateStatusTask builds:
\* `payloadStreamUpdateStatusFor${adapter.providerName}`
QueueTaskName(provider) == <<"payloadStreamUpdateStatusFor", provider>>

Job(d) == [queue |-> QueueName, task |-> QueueTaskName(ProviderName), input |-> TaskInput(d)]

\* the host (or any caller of payload.jobs.queue) schedules a status task
HostEnqueue(d) ==
  /\ BagCardinality(queue) + BagCardinality(procs) < MaxQueue
  /\ queue' = queue (+) SetToBag({Job(d)})
  /\ last' = NoProc
  /\ UNCHANGED <<docs, procs, createPending, copied, snapshot, config>>

\* TaskEnter that polls whatever the record says
TaskEnterNoGate(p) == [p EXCEPT !.pc = "getStatus"]

\* the handler after findByID resolved: only readyToStream === false polls
TaskEnter(p) ==
  IF p.doc.stream.readyToStream = F
  THEN [p EXCEPT !.pc = "getStatus"]
  ELSE Return(p)

\* a queued job runs: findByID (rejects for an unknown id), then the gate
TaskRun(job) ==
  /\ BagCardinality(procs) < MaxProcs
  /\ job.task = TaskName(ProviderName)
  /\ queue' = queue (-) SetToBag({job})
  /\ LET d == job.input.documentId
         p == NewProc("task", "start", "job", job.input, NoDoc, FALSE)
     IN  \/ Spawn(Throw(Call(p, "findByID.throw")))
         \/ /\ d \in StoredIds
            /\ Spawn(TaskEnter([Call(p, "findByID") EXCEPT !.doc = DocView(docs[d])]))
  /\ UNCHANGED <<docs, createPending, copied, config>>

TaskStart(job) == TaskRun(job) /\ UNCHANGED snapshot

\* the same step, with the number of task runs so far remembered
TaskStartCounted(job) ==
  /\ snapshot.runs < MaxRuns
  /\ TaskRun(job)
  /\ snapshot' = [snapshot EXCEPT !.runs = @ + 1]

\* RequeueJob that names another document
RequeueJobOtherDocument(p) == Job("d2")

\* the job the handler re-queues: the collectionSlug and documentId of its own input
RequeueJob(p) == Job(p.input.documentId)

\* TaskQueue that enqueues the successor twice
TaskQueueTwice(p) ==
  /\ p.pc = "queue"
  /\ \/ /\ queue' = queue (+) SetToBag({RequeueJob(p)}) (+) SetToBag({RequeueJob(p)})
        /\ Step(p, Return([Call(p, "queue") EXCEPT
                             !.enqueued = Append(Append(@, RequeueJob(p)), RequeueJob(p))]))
     \/ /\ Step(p, Return(Call(p, "queue.throw")))
        /\ UNCHANGED queue
  /\ UNCHANGED <<docs, createPending, copied, snapshot, config>>

\* TaskQueue whose handler is left by a rejection of the queue call
TaskQueueUncaught(p) ==
  /\ p.pc = "queue"
  /\ \/ /\ queue' = queue (+) SetToBag({RequeueJob(p)})
        /\ Step(p, Return([Call(p, "queue") EXCEPT !.enqueued = Append(@, RequeueJob(p))]))
     \/ /\ Step(p, Throw(Call(p, "queue.throw")))
        /\ UNCHANGED queue
  /\ UNCHANGED <<docs, createPending, copied, snapshot, config>>

\* the value the handler returns: { output: { data: { collectionSlug, documentId },
\* message } }
TaskOutput(p) ==
  [output |-> [data |-> [collectionSlug |-> p.input.collectionSlug,
                         documentId |-> p.input.documentId],
               message |-> "Update stream status task executed"]]

\* queueUpdateStatusTask: await req.payload.jobs.queue(...); a rejection is caught
TaskQueue(p) ==
  /\ p.pc = "queue"
  /\ \/ /\ queue' = queue (+) SetToBag({RequeueJob(p)})
        /\ Step(p, Return([Call(p, "queue") EXCEPT !.enqueued = Append(@, RequeueJob(p))]))
     \/ /\ Step(p, Return(Call(p, "queue.throw")))
        /\ UNCHANGED queue
  /\ UNCHANGED <<docs, createPending, copied, snapshot, config>>

(* -------------------------- specifications ---------------------------- *)

DoAfterOperation == \E op \in Operations, d \in StoredIds : AfterOperation(op, d)
DoTimerFire == \E p \in InFlight : TimerFire(p)
DoCopyFetch == \E p \in InFlight : CopyFetch(p)
DoCopyAdapter == \E p \in InFlight : CopyAdapter(p)
DoCopyUpdate == \E p \in InFlight : CopyUpdate(p)
DoCopyCatch == \E p \in InFlight : CopyCatch(p)
DoStatusGet == \E p \in InFlight : StatusGet(p)
DoStatusUpdate == \E p \in InFlight : StatusUpdate(p)
DoDeleteHook == \E d \in StoredIds : DeleteHook(d)
DoDeleteAdapter == \E p \in InFlight : DeleteAdapter(p)
DoHostEnqueue == \E d \in DocIds : HostEnqueue(d)
DoTaskStart == \E job \in BagToSet(queue) : TaskStart(job)
DoTaskQueue == \E p \in InFlight : TaskQueue(p)

\* the plugin as the host drives it: hooks, the delayed copy, queued tasks
Next ==
  \/ DoAfterOperation
  \/ DoTimerFire
  \/ DoCopyFetch
  \/ DoCopyAdapter
  \/ DoCopyUpdate
  \/ DoCopyCatch
  \/ DoStatusGet
  \/ DoStatusUpdate
  \/ DoDeleteHook
  \/ DoDeleteAdapter
  \/ DoHostEnqueue
  \/ DoTaskStart
  \/ DoTaskQueue

Spec == Init /\ [][Next]_vars

\* direct calls of the service's operations on the stored record
CallCopy(d, rsu) ==
  /\ BagCardinality(procs) < MaxCalls
  /\ Spawn(CopyEnter(NewProc("copy", "start", "call", TaskInput(d), DocView(docs[d]), rsu)))
  /\ UNCHANGED <<docs, queue, createPending, copied, snapshot, config>>

CallUpdateStatus(d) ==
  /\ BagCardinality(procs) < MaxCalls
  /\ Spawn(NewProc("status", "getStatus", "call", TaskInput(d), DocView(docs[d]), FALSE))
  /\ UNCHANGED <<docs, queue, createPending, copied, snapshot, config>>

CallDelete(d) ==
  /\ BagCardinality(procs) < MaxCalls
  /\ Spawn(DeleteEnter(NewProc("delete", "start", "call", TaskInput(d), DocView(docs[d]), FALSE)))
  /\ UNCHANGED <<docs, queue, createPending, copied, snapshot, config>>

DoCallCopy == \E d \in StoredIds, rsu \in BOOLEAN : CallCopy(d, rsu)
DoCallUpdateStatus == \E d \in StoredIds : CallUpdateStatus(d)
DoCallDelete == \E d \in StoredIds : CallDelete(d)

NextService ==
  \/ DoCallCopy
  \/ DoCallUpdateStatus
  \/ DoCallDelete
  \/ DoCopyFetch
  \/ DoCopyAdapter
  \/ DoCopyUpdate
  \/ DoCopyCatch
  \/ DoStatusGet
  \/ DoStatusUpdate
  \/ DoDeleteAdapter

SpecService == Init /\ [][NextService]_vars

\* the poll loop on its own: the record already carries the videoId of a
\* successful copy and status tasks (one or more) are queued for it
InitPoll ==
  /\ \E resp \in {r \in CopyResponses : r.hasResult} :
       docs = [d \in StoredIds |->
                 [id |-> d, mimeType |-> <<"v", "i", "d", "e", "o", "/", "m", "p", "4">>, url |-> StoredUrl,
                  stream |-> MergeStream(InitStream, CopyPatch(resp))]]
  /\ procs = EmptyBag
  /\ \E n \in 1..MaxQueue : queue = [j \in {Job(d) : d \in StoredIds} |-> n]
  /\ last = NoProc
  /\ createPending = FALSE
  /\ copied = TRUE
  /\ snapshot = NoSnapshot
  /\ config = InstalledConfig

NextPoll ==
  \/ DoTaskStart
  \/ DoStatusGet
  \/ DoStatusUpdate
  \/ DoTaskQueue

\* the host's job runner picks up every queued job, and every awaited call of a
\* running task settles
FairPoll ==
  /\ WF_vars(DoTaskStart)
  /\ WF_vars(DoStatusGet)
  /\ WF_vars(DoStatusUpdate)
  /\ WF_vars(DoTaskQueue)

SpecPoll == InitPoll /\ [][NextPoll]_vars /\ FairPoll

\* updateStatus called twice in a row on one record: the stream sub-records a
\* record can carry before the first call
StreamsBeforeStatus ==
  {InitStream, MergeStream(InitStream, ErrorPatch)}
    \cup {MergeStream(InitStream, CopyPatch(resp)) : resp \in {r \in CopyResponses : r.hasResult}}

InitTwice ==
  /\ \E st \in StreamsBeforeStatus :
       docs = [d \in StoredIds |->
                 [id |-> d, mimeType |-> <<"v", "i", "d", "e", "o", "/", "m", "p", "4">>, url |-> StoredUrl,
                  stream |-> st]]
  /\ procs = EmptyBag
  /\ queue = EmptyBag
  /\ last = NoProc
  /\ createPending = FALSE
  /\ copied = FALSE
  /\ snapshot = NoSnapshot
  /\ config = InstalledConfig

\* the first call of updateStatus
FirstCall(d) ==
  /\ procs = EmptyBag
  /\ last = NoProc
  /\ snapshot = NoSnapshot
  /\ Spawn(NewProc("status", "getStatus", "call", TaskInput(d), DocView(docs[d]), FALSE))
  /\ UNCHANGED <<docs, queue, createPending, copied, snapshot, config>>

\* the second call, made once the first has returned; the first call and the
\* stream it left are remembered
SecondCall(d) ==
  /\ procs = EmptyBag
  /\ last.kind = "status"
  /\ last.op = "call"
  /\ last.doc.id = d
  /\ snapshot' = [first |-> last, stream |-> docs[d].stream, runs |-> 0]
  /\ Spawn(NewProc("status", "getStatus", "call again", TaskInput(d), DocView(docs[d]), FALSE))
  /\ UNCHANGED <<docs, queue, createPending, copied, config>>

\* the remote state is the same for both calls: adapter.getStatus of the second
\* call settles the way it did for the first
RemoteUnchanged(q) ==
  q.op = "call again"
    => /\ Called(q, "getStatus.throw") <=> Called(snapshot.first, "getStatus.throw")
       /\ q.resp = snapshot.first.resp

StatusGetTwice(p) ==
  /\ StatusGet(p)
  /\ \A q \in BagToSet(procs') \cup {last'} : RemoteUnchanged(q)

DoFirstCall == \E d \in StoredIds : FirstCall(d)
DoSecondCall == \E d \in StoredIds : SecondCall(d)
DoStatusGetTwice == \E p \in InFlight : StatusGetTwice(p)

NextTwice ==
  \/ DoFirstCall
  \/ DoSecondCall
  \/ DoStatusGetTwice
  \/ DoStatusUpdate

SpecTwice == InitTwice /\ [][NextTwice]_vars

(* ------------------- the create operation and its hook ---------------- *)

\* stream data a record may be created with: the field defaults, or values the
\* creating request supplied
StreamsAtCreate ==
  { InitStream,
    [InitStream EXCEPT !.videoId = "v1"],
    [InitStream EXCEPT !.videoId = "v1", !.readyToStream = T] }

InitCreate ==
  /\ \E m \in MimeTypes, st \in StreamsAtCreate :
       docs = [d \in StoredIds |-> [id |-> d, mimeType |-> m, url |-> StoredUrl, stream |-> st]]
  /\ procs = EmptyBag
  /\ queue = EmptyBag
  /\ last = NoProc
  /\ createPending = TRUE
  /\ copied = FALSE
  /\ snapshot = NoSnapshot
  /\ config = InstalledConfig

\* the host's create operation, still to complete after its afterOperation hooks
\* have returned
CreateInProgress(result) ==
  NewProc("operation", "completing", "create", TaskInput(result.id), result, FALSE)

\* the create operation runs the copyVideo hook: the hook sets the timer when its
\* condition holds and returns the result; the operation has yet to complete
CreateOperation(d) ==
  /\ createPending
  /\ createPending' = FALSE
  /\ LET result == DocView(docs[d]) IN
       IF CopyHookGate("create", result)
       THEN \E rsu \in BOOLEAN :
              /\ procs' = procs (+) SetToBag({[HookProc("timer", "create", result, rsu) EXCEPT !.kind = "timer"],
                                              CreateInProgress(result)})
              /\ last' = Return(HookProc("done", "create", result, rsu))
       ELSE /\ procs' = procs (+) SetToBag({CreateInProgress(result)})
            /\ last' = Return(HookProc("done", "create", result, FALSE))
  /\ UNCHANGED <<docs, queue, copied, snapshot, config>>

\* the create operation completes and returns to its caller
CreateCompletes(p) ==
  /\ p.kind = "operation"
  /\ Step(p, Return(p))
  /\ UNCHANGED <<docs, queue, createPending, copied, snapshot, config>>

DoCreateOperation == \E d \in StoredIds : CreateOperation(d)
DoCreateCompletes == \E p \in InFlight : CreateCompletes(p)

NextCreate ==
  \/ DoCreateOperation
  \/ DoCreateCompletes
  \/ DoTimerFire
  \/ DoCopyFetch
  \/ DoCopyAdapter
  \/ DoCopyUpdate
  \/ DoCopyCatch

\* a record's create operation, its hook, and the delayed copy
SpecCreate == InitCreate /\ [][NextCreate]_vars

(* ----------------------- the Cloudflare Stream adapter ----------------- *)

RawFields ==
  {"uid", "readyToStream", "readyToStreamAt", "requireSignedURLs", "thumbnail",
   "duration", "inputHeight", "inputWidth", "size", "errorReasonText"}

NoRaw == [f \in RawFields |-> Undef]

\* a CloudflareStreamAPIResponse body: result is missing or a video
NoResultBody == [hasResult |-> FALSE, result |-> NoRaw]

WithRaw(r) == [hasResult |-> TRUE, result |-> r]

\* bodies the vendor answers POST /stream/copy with: the new video has a uid of
\* its own
CopyBodies ==
  {NoResultBody} \cup {WithRaw([NoRaw EXCEPT !.uid = v, !.readyToStream = F]) : v \in VideoIds}

\* bodies the vendor answers a request on /stream/{id} with: the video of that uid
VideoBodies(id) ==
  LET base == [NoRaw EXCEPT !.uid = id]
  IN  { NoResultBody,
        WithRaw([base EXCEPT !.readyToStream = F, !.requireSignedURLs = T]),
        WithRaw([base EXCEPT !.readyToStream = F, !.errorReasonText = "encode failed"]),
        WithRaw([base EXCEPT !.readyToStream = T, !.readyToStreamAt = "T",
                             !.thumbnail = "t.jpg", !.duration = "30",
                             !.inputHeight = "720", !.inputWidth = "1280", !.size = "4096"]) }

\* an HTTP response: response.ok and the parsed body
HttpResponses(bodies) == {[ok |-> ok, body |-> b] : ok \in BOOLEAN, b \in bodies}

\* streamResponseFromCloudflareStreamAPI that copies the vendor's fields without
\* mapping uid to videoId
StreamResponseWithoutVideoId(body) ==
  IF body.hasResult
  THEN WithResult([NoResult EXCEPT !.readyToStream = body.result.readyToStream,
                                   !.readyToStreamAt = body.result.readyToStreamAt,
                                   !.requireSignedURLs = body.result.requireSignedURLs,
                                   !.thumbnail = body.result.thumbnail,
                                   !.size = body.result.size,
                                   !.errorReasonText = body.result.errorReasonText,
                                   !.durationInSeconds = body.result.duration,
                                   !.height = body.result.inputHeight,
                                   !.width = body.result.inputWidth])
  ELSE NoResultResponse

\* streamResponseFromCloudflareStreamAPI: the vendor's fields are spread, duration,
\* input.height, input.width and uid are renamed
StreamResponseFromCloudflareStreamAPI(body) ==
  IF body.hasResult
  THEN WithResult([NoResult EXCEPT !.readyToStream = body.result.readyToStream,
                                   !.readyToStreamAt = body.result.readyToStreamAt,
                                   !.requireSignedURLs = body.result.requireSignedURLs,
                                   !.thumbnail = body.result.thumbnail,
                                   !.size = body.result.size,
                                   !.errorReasonText = body.result.errorReasonText,
                                   !.durationInSeconds = body.result.duration,
                                   !.height = body.result.inputHeight,
                                   !.videoId = body.result.uid,
                                   !.width = body.result.inputWidth])
  ELSE NoResultResponse

AdapterProc(pc, op, id, rsu) ==
  [NewProc("adapter", pc, op, TaskInput(Undef), NoDoc, rsu) EXCEPT !.url = id]

\* no adapter call has been made yet; the stored record plays no part
InitAdapter ==
  /\ docs = [d \in StoredIds |->
               [id |-> d, mimeType |-> <<"v", "i", "d", "e", "o", "/", "m", "p", "4">>, url |-> StoredUrl,
                stream |-> InitStream]]
  /\ procs = EmptyBag
  /\ queue = EmptyBag
  /\ last = NoProc
  /\ createPending = FALSE
  /\ copied = FALSE
  /\ snapshot = NoSnapshot
  /\ config = InstalledConfig

\* a first call of adapter.getStatus or adapter.delete with any videoId argument
CallAdapter(op, id, rsu) ==
  /\ procs = EmptyBag
  /\ last = NoProc
  /\ snapshot = NoSnapshot
  /\ Spawn(AdapterProc(IF op = "getStatus" THEN "get.status" ELSE "delete.video", op, id, rsu))
  /\ UNCHANGED <<docs, queue, createPending, copied, snapshot, config>>

\* a call of adapter.copyVideo on an adapter configured with requireSignedURLs = rsu
CallAdapterCopyVideo(rsu) ==
  /\ procs = EmptyBag
  /\ last = NoProc
  /\ snapshot = NoSnapshot
  /\ Spawn(AdapterProc("post.copy", "copyVideo", Undef, rsu))
  /\ UNCHANGED <<docs, queue, createPending, copied, snapshot, config>>

\* copyVideo: the POST to /stream/copy has answered
AdapterCopyVideo(p) ==
  /\ p.pc = "post.copy"
  /\ \E http \in HttpResponses(CopyBodies) :
       IF ~http.ok
       THEN Step(p, Throw(Call(p, "copy.notok")))
       ELSE IF p.rsu /\ http.body.hasResult
            THEN Step(p, [Call(p, "copy.ok") EXCEPT !.pc = "post.mark", !.url = http.body.result.uid])
            ELSE Step(p, Return([Call(p, "copy.ok") EXCEPT
                                   !.url = http.body.result.uid,
                                   !.resp = StreamResponseFromCloudflareStreamAPI(http.body)]))
  /\ UNCHANGED <<docs, queue, createPending, copied, snapshot, config>>

\* AdapterMarkRequireSignedURLs that does not look at response.ok
AdapterMarkUnchecked(p) ==
  /\ p.pc = "post.mark"
  /\ \E http \in HttpResponses(VideoBodies(p.url)) :
       Step(p, Return([Call(p, IF http.ok THEN "mark.ok" ELSE "mark.notok") EXCEPT
                         !.resp = StreamResponseFromCloudflareStreamAPI(http.body)]))
  /\ UNCHANGED <<docs, queue, createPending, copied, snapshot, config>>

\* markRequireSignedURLs(uid): the POST to /stream/{uid} has answered
AdapterMarkRequireSignedURLs(p) ==
  /\ p.pc = "post.mark"
  /\ \E http \in HttpResponses(VideoBodies(p.url)) :
       IF ~http.ok
       THEN Step(p, Throw(Call(p, "mark.notok")))
       ELSE Step(p, Return([Call(p, "mark.ok") EXCEPT
                              !.resp = StreamResponseFromCloudflareStreamAPI(http.body)]))
  /\ UNCHANGED <<docs, queue, createPending, copied, snapshot, config>>

\* a call of adapter.getStatus with the videoId the copyVideo call just returned;
\* that call is remembered
CallAdapterGetStatus ==
  /\ procs = EmptyBag
  /\ last.kind = "adapter"
  /\ last.op = "copyVideo"
  /\ last.outcome = "returned"
  /\ last.resp.hasResult
  /\ snapshot' = [first |-> last, stream |-> EmptyPatch, runs |-> 0]
  /\ Spawn(AdapterProc("get.status", "getStatus", last.resp.result.videoId, last.rsu))
  /\ UNCHANGED <<docs, queue, createPending, copied, config>>

\* getStatus(videoId): the GET of /stream/{videoId} has answered; download links
\* are requested for a ready video when the adapter is configured to
AdapterGetStatus(p) ==
  /\ p.pc = "get.status"
  /\ \E http \in HttpResponses(VideoBodies(p.url)), generateDownloads \in BOOLEAN :
       LET result == StreamResponseFromCloudflareStreamAPI(http.body) IN
         IF ~http.ok
         THEN Step(p, Throw(Call(p, "status.notok")))
         ELSE IF generateDownloads /\ Truthy(result.result.readyToStream)
              THEN Step(p, [Call(p, "status.ok") EXCEPT !.pc = "post.downloads", !.resp = result])
              ELSE Step(p, Return([Call(p, "status.ok") EXCEPT !.resp = result]))
  /\ UNCHANGED <<docs, queue, createPending, copied, snapshot, config>>

\* generateDownloadLinks: a failed request is caught and logged
AdapterGenerateDownloadLinks(p) ==
  /\ p.pc = "post.downloads"
  /\ \E c \in {"downloads.ok", "downloads.notok"} : Step(p, Return(Call(p, c)))
  /\ UNCHANGED <<docs, queue, createPending, copied, snapshot, config>>

\* delete(videoId): the DELETE of /stream/{videoId} has answered
AdapterDelete(p) ==
  /\ p.pc = "delete.video"
  /\ \E ok \in BOOLEAN :
       IF ok
       THEN Step(p, Return(Call(p, "delete.ok")))
       ELSE Step(p, Throw(Call(p, "delete.notok")))
  /\ UNCHANGED <<docs, queue, createPending, copied, snapshot, config>>

DoCallAdapter ==
  \E op \in {"getStatus", "delete"}, id \in VideoIds \cup {Undef}, rsu \in BOOLEAN :
    CallAdapter(op, id, rsu)
DoAdapterDelete == \E p \in InFlight : AdapterDelete(p)
DoCallAdapterCopyVideo == \E rsu \in BOOLEAN : CallAdapterCopyVideo(rsu)
DoAdapterCopyVideo == \E p \in InFlight : AdapterCopyVideo(p)
DoAdapterMarkRequireSignedURLs == \E p \in InFlight : AdapterMarkRequireSignedURLs(p)
DoAdapterGetStatus == \E p \in InFlight : AdapterGetStatus(p)
DoAdapterGenerateDownloadLinks == \E p \in InFlight : AdapterGenerateDownloadLinks(p)

NextAdapter ==
  \/ DoCallAdapter
  \/ DoCallAdapterCopyVideo
  \/ DoAdapterCopyVideo
  \/ DoAdapterMarkRequireSignedURLs
  \/ CallAdapterGetStatus
  \/ DoAdapterGetStatus
  \/ DoAdapterGenerateDownloadLinks
  \/ DoAdapterDelete

\* the adapter on its own: single calls, and copyVideo followed by getStatus with
\* the videoId it returned
SpecAdapter == InitAdapter /\ [][NextAdapter]_vars

(* -------------------- the copy and the source URL ---------------------- *)

\* a video record with any of the stored urls
InitUrl ==
  /\ \E u \in StoredUrls :
       docs = [d \in StoredIds |->
                 [id |-> d, mimeType |-> <<"v", "i", "d", "e", "o", "/", "m", "p", "4">>,
                  url |-> u, stream |-> InitStream]]
  /\ procs = EmptyBag
  /\ queue = EmptyBag
  /\ last = NoProc
  /\ createPending = FALSE
  /\ copied = FALSE
  /\ snapshot = NoSnapshot
  /\ config = InstalledConfig

NextUrl ==
  \/ DoCallCopy
  \/ DoCopyFetch
  \/ DoCopyAdapter
  \/ DoCopyUpdate
  \/ DoCopyCatch

SpecUrl == InitUrl /\ [][NextUrl]_vars

(* ------------------- successive runs of the status task ---------------- *)

\* one status task queued for a record that carries the videoId of a copy
InitLoop ==
  /\ InitPoll
  /\ queue = SetToBag({Job(d) : d \in StoredIds})

DoTaskStartCounted == \E job \in BagToSet(queue) : TaskStartCounted(job)

NextLoop ==
  \/ DoTaskStartCounted
  \/ DoStatusGet
  \/ DoStatusUpdate
  \/ DoTaskQueue

SpecLoop == InitLoop /\ [][NextLoop]_vars

(* ----------------------- plugin setup on its own ----------------------- *)

InitSetup ==
  /\ docs = [d \in StoredIds |->
               [id |-> d, mimeType |-> <<"v", "i", "d", "e", "o", "/", "m", "p", "4">>, url |-> StoredUrl,
                stream |-> InitStream]]
  /\ procs = EmptyBag
  /\ queue = EmptyBag
  /\ last = NoProc
  /\ createPending = FALSE
  /\ copied = FALSE
  /\ snapshot = NoSnapshot
  /\ config \in [options : PluginOptions, tasks : IncomingTasks, installed : {FALSE}]

NextSetup == VideoStream

SpecSetup == InitSetup /\ [][NextSetup]_vars

(* ------------------------------- claims ------------------------------- *)

Stream(d) == docs[d].stream

ErrorEmpty(e) == e \in {Undef, ""}

\* C1: whenever copyVideoToStreamingPlatform returns {success: true}, the stored
\* stream.videoId is the videoId adapter.copyVideo returned and stream.provider is
\* the adapter's providerName -- also when the response carries no result.
C1_SuccessStoresIdAndProvider ==
  (last.kind = "copy" /\ last.outcome = "returned" /\ last.ret.success = T)
    => /\ Stream(last.doc.id).videoId = last.resp.result.videoId
       /\ Stream(last.doc.id).provider = ProviderName

\* C2: when adapter.copyVideo throws for a record without videoId, the call returns
\* {success: false, error: CopyErrorMsg} and the stored record has that error and
\* still no videoId.
C2_AdapterThrowPersistsError ==
  (last.kind = "copy" /\ Called(last, "copyVideo.throw") /\ last.doc.stream.videoId = Undef)
    => /\ last.outcome = "returned"
       /\ last.ret = [success |-> F, error |-> CopyErrorMsg]
       /\ Stream(last.doc.id).error = CopyErrorMsg
       /\ Stream(last.doc.id).videoId = Undef

\* C3: copyVideoToStreamingPlatform never throws, whatever the probe, the adapter
\* and the store updates do: every call ends by returning.
C3_CopyNeverThrows == last.kind = "copy" => last.outcome = "returned"

\* C4: for a record whose mimeType does not start with "video/" the call returns
\* {success: false, error: "Not a video file"} having made no probe, no adapter call
\* and no store update; the stored record is unchanged.
C4_NonVideoIsNoOp ==
  [][(last'.kind = "copy" /\ ~IsVideo(last'.doc.mimeType))
       => /\ last'.outcome = "returned"
          /\ last'.ret = [success |-> F, error |-> NotVideoMsg]
          /\ last'.calls = <<>>
          /\ docs' = docs]_vars

C4_Witness ==
  /\ last.kind = "copy"
  /\ ~IsVideo(last.doc.mimeType)
  /\ last.ret.error = NotVideoMsg

\* C5: the stream sub-record of a record whose mimeType does not start with
\* "video/" is never changed by any hook, copy or task run.
C5_NonVideoStreamUntouched ==
  \A d \in StoredIds : ~IsVideo(docs[d].mimeType) => Stream(d) = InitStream

\* C6: once a record (with its videoId stored) has stream.readyToStream = true, no
\* step of any hook or task run stores false or undefined again.
C6_ReadyToStreamMonotonic ==
  [][\A d \in StoredIds :
       (Stream(d).readyToStream = T /\ Stream(d).videoId # Undef)
         => docs'[d].stream.readyToStream = T]_vars

\* C7: in every state, stream.readyToStream = true implies that stream.videoId is
\* set and stream.error is empty.
C7_ReadyImpliesIdAndNoError ==
  \A d \in StoredIds :
    Stream(d).readyToStream = T => (Truthy(Stream(d).videoId) /\ ErrorEmpty(Stream(d).error))

\* C8: once no copy is in flight, stream.videoId is set if and only if some
\* adapter.copyVideo call for the record returned without throwing.
C8_VideoIdIffCopySucceeded ==
  (\A p \in InFlight : p.kind \notin {"timer", "copy"})
    => \A d \in StoredIds : (Stream(d).videoId # Undef) <=> copied

C10_NoRequeueOnceReady ==
  \A p \in InFlight \cup {last} :
    (p.kind = "task" /\ (p.pc = "queue" \/ Called(p, "queue") \/ Called(p, "queue.throw")))
      => /\ p.doc.stream.readyToStream = F
         /\ p.resp.hasResult
         /\ p.resp.result.readyToStream = F

C10_Witness ==
  /\ last.kind = "task"
  /\ last.outcome = "returned"
  /\ last.status = "response"
  /\ last.resp.result.readyToStream = T
  /\ last.enqueued = <<>>

\* a task run that fetched readyToStream === false and whose updateStatus returned
\* a response with result.readyToStream === false
PolledNotReady(p) ==
  /\ p.kind = "task"
  /\ p.doc.stream.readyToStream = F
  /\ p.status = "response"
  /\ p.resp.hasResult
  /\ p.resp.result.readyToStream = F

\* C11 (as stated): a task run that fetched readyToStream === false and got a
\* response with result.readyToStream === false has enqueued a new task with the
\* {collectionSlug, documentId} it was given.
C11_RequeueEnqueued ==
  (PolledNotReady(last) /\ last.outcome = "returned")
    => /\ Len(last.enqueued) = 1
       /\ last.enqueued[1].input = last.input
       /\ BagIn(last.enqueued[1], queue)

\* C11 (amended): such a run has asked the host queue exactly once for a task, and
\* when the host accepted the request the new task is in the queue with the task
\* name of the adapter and the {collectionSlug, documentId} the run was given.
C11_RequeueRequested ==
  (PolledNotReady(last) /\ last.outcome = "returned")
    => /\ Called(last, "queue") \/ Called(last, "queue.throw")
       /\ Called(last, "queue")
            => /\ Len(last.enqueued) = 1
               /\ last.enqueued[1].input = last.input
               /\ last.enqueued[1].task = TaskName(ProviderName)
               /\ BagIn(last.enqueued[1], queue)
       /\ Called(last, "queue.throw") => last.enqueued = <<>>

C11_Witness ==
  /\ PolledNotReady(last)
  /\ last.outcome = "returned"
  /\ Called(last, "queue")
  /\ BagIn(Job("d1"), queue)

\* C12: a task run whose updateStatus returned null ends by returning, has made
\* no queue call and no successful store update, and the step that ends it leaves
\* the record and the queue as they were.
C12_NullEndsTaskQuietly ==
  [][(last'.kind = "task" /\ last'.status = "null")
       => /\ last'.outcome = "returned"
          /\ last'.enqueued = <<>>
          /\ ~Called(last', "queue")
          /\ ~Called(last', "queue.throw")
          /\ ~Called(last', "update")
          /\ docs' = docs
          /\ queue' = queue]_vars

C12_Witness ==
  /\ last.kind = "task"
  /\ last.status = "null"
  /\ Called(last, "getStatus.throw")
  /\ last.outcome = "returned"

\* C13: a task run on a not-ready record whose adapter.getStatus call failed has
\* asked the host queue for a successor, so that a later status check of the
\* record is scheduled.
C13_FailureKeepsPolling ==
  (last.kind = "task" /\ last.doc.stream.readyToStream = F /\ Called(last, "getStatus.throw"))
    => Called(last, "queue") \/ Called(last, "queue.throw")

\* no invocation, running or just ended, has had one of the calls in S fail
NoCallFailed(S) == \A p \in InFlight \cup {last} : \A c \in S : ~Called(p, c)

\* every getStatus response held by a running status check carries a result
ResponsesHaveResult ==
  \A p \in InFlight : p.pc = "status.update" => p.resp.hasResult

\* every getStatus response held by a running status check reports readyToStream = true
RemoteReportsReady ==
  \A p \in InFlight :
    p.pc = "status.update" => (p.resp.hasResult /\ p.resp.result.readyToStream = T)

\* the record is ready and no status task for it is queued
PollDone ==
  \A d \in StoredIds : Stream(d).readyToStream = T /\ ~BagIn(Job(d), queue)

C15_CopyEnqueuesStatusTask ==
  (last.kind = "copy" /\ last.op = "create" /\ Called(last, "update") /\ last.ret.success = T)
    => \/ BagIn(Job(last.doc.id), queue)
       \/ Called(last, "queue")
       \/ Called(last, "queue.throw")

\* C16: a task run whose status check has persisted a non-empty stream.error with
\* readyToStream = false neither enqueues nor asks to enqueue a further status task.
C16_NoRequeueAfterTerminalError ==
  \A p \in InFlight \cup {last} :
    ( /\ p.kind = "task"
      /\ p.status = "response"
      /\ Truthy(p.resp.result.errorReasonText)
      /\ p.resp.result.readyToStream = F )
      => /\ p.pc # "queue"
         /\ ~Called(p, "queue")
         /\ ~Called(p, "queue.throw")

\* C17: an updateStatus call whose adapter.getStatus rejected returns null, does
\* not throw, has issued no store update, and leaves the stored record as it was.
C17_GetStatusThrowReturnsNull ==
  [][(last'.kind = "status" /\ Called(last', "getStatus.throw"))
       => /\ last'.outcome = "returned"
          /\ last'.status = "null"
          /\ last'.calls = <<"getStatus.throw">>
          /\ docs' = docs]_vars

C17_Witness ==
  /\ last.kind = "status"
  /\ Called(last, "getStatus.throw")
  /\ last.status = "null"

\* the second of two consecutive updateStatus calls has just returned
SecondCallReturned == last.kind = "status" /\ last.op = "call again"

AdapterDeleteCalls(p) ==
  {i \in 1..Len(p.calls) : p.calls[i] \in {"delete", "delete.throw"}}

\* C19: streamingService.delete on a record whose stream.videoId is set has called
\* adapter.delete exactly once when it returns.
C19_DeleteCallsAdapterOnce ==
  (last.kind = "delete" /\ last.outcome = "returned" /\ Truthy(last.doc.stream.videoId))
    => Cardinality(AdapterDeleteCalls(last)) = 1

\* C20: streamingService.delete on a record with no stream.videoId returns without
\* throwing and without having called adapter.delete.
C20_DeleteWithoutVideoIdSkipsAdapter ==
  (last.kind = "delete" /\ ~Truthy(last.doc.stream.videoId))
    => /\ last.outcome = "returned"
       /\ AdapterDeleteCalls(last) = {}

\* C21: streamingService.delete, once entered, never throws: a before-delete hook
\* run whose findByID resolved ends by returning, also when adapter.delete rejected.
C21_DeleteNeverBlocks ==
  (last.kind = "delete" /\ ~Called(last, "findByID.throw")) => last.outcome = "returned"

C21_Witness ==
  /\ last.kind = "delete"
  /\ Called(last, "findByID")
  /\ Called(last, "delete.throw")
  /\ last.outcome = "returned"

\* C22: no after-operation hook run, delayed copy callback, before-delete hook run
\* or status-task run ends by throwing, whichever awaited call failed.
C22_NothingThrowsPastBoundary ==
  last.kind \in {"hook", "copy", "delete", "task"} => last.outcome # "threw"

\* the record is in the state a failed copy leaves: the copy error stored, no videoId
FailedCopy(d) == Stream(d).error = CopyErrorMsg /\ Stream(d).videoId = Undef

\* C23: from the state a failed copy leaves, every step keeps stream.error
\* non-empty and readyToStream false, and starts no adapter.copyVideo call for
\* the record.
C23_FailedCopyStaysFailed ==
  [][\A d \in StoredIds :
       FailedCopy(d)
         => /\ Truthy(docs'[d].stream.error)
            /\ docs'[d].stream.readyToStream = F
            /\ \A p \in BagToSet(procs') :
                 (p.doc.id = d /\ p.pc \in {"timer", "fetch", "copyVideo"}) => p \in InFlight]_vars

\* the number of copyVideoToStreamingPlatform runs in flight for record d
CopiesInFlight(d) ==
  LET S == {p \in InFlight : p.kind = "copy" /\ p.doc.id = d}
  IN  BagCardinality([p \in S |-> procs[p]])

C25_VideoIdRoundTrip ==
  ( /\ last.kind = "adapter" /\ last.op = "getStatus"
    /\ snapshot.first.op = "copyVideo"
    /\ last.outcome = "returned" /\ last.resp.hasResult )
    => /\ last.resp.result.videoId = snapshot.first.resp.result.videoId
       /\ last.resp.result.videoId = snapshot.first.url
       /\ last.resp.result.videoId \in VideoIds

\* the round trip through the marking request
C25_Witness ==
  /\ last.kind = "adapter"
  /\ last.op = "getStatus"
  /\ last.outcome = "returned"
  /\ last.resp.hasResult
  /\ Called(snapshot.first, "mark.ok")
  /\ last.resp.result.videoId = "v2"

CopyFields == {"provider", "readyToStream", "requireSignedURLs", "thumbnailUrl", "videoId"}

\* C26: the step that ends a successful copy stores provider, readyToStream,
\* videoId and requireSignedURLs (false when the adapter omits it) from the result,
\* stores result.thumbnail as thumbnailUrl when the adapter gives one, and leaves
\* every other stream field, error included, as it was.
C26_CopyWritesFiveFields ==
  [][(last'.kind = "copy" /\ Called(last', "update") /\ last'.ret.success = T)
       => LET d == last'.doc.id
              r == last'.resp.result
              old == docs[d].stream
              new == docs'[d].stream
          IN  /\ new.provider = ProviderName
              /\ new.readyToStream = r.readyToStream
              /\ new.videoId = r.videoId
              /\ new.requireSignedURLs = (IF r.requireSignedURLs = Undef THEN F ELSE r.requireSignedURLs)
              /\ new.thumbnailUrl = (IF r.thumbnail = Undef THEN old.thumbnailUrl ELSE r.thumbnail)
              /\ \A f \in StreamFields \ CopyFields : new[f] = old[f]]_vars

\* a copy that succeeded on a record still carrying the error of an earlier failed
\* copy
C26_Witness ==
  /\ last.kind = "copy"
  /\ Called(last, "update")
  /\ last.ret.success = T
  /\ Stream(last.doc.id).error = CopyErrorMsg
  /\ Stream(last.doc.id).requireSignedURLs = F

\* C27: an after-operation hook run ends by returning; it has called updateStatus
\* (adapter.getStatus first, then at most the store update) exactly when the
\* operation was findByID on a video record with a videoId and a falsy
\* readyToStream, and has made no call at all otherwise.
C27_StatusHookGate ==
  last.kind = "hook"
    => /\ last.outcome = "returned"
       /\ IF /\ last.op = "findByID"
             /\ last.doc.stream.readyToStream \in {F, Undef, ""}
             /\ last.doc.stream.videoId \notin {Undef, ""}
             /\ StartsWith(last.doc.mimeType, <<"v", "i", "d", "e", "o", "/">>)
          THEN \/ last.calls = <<"getStatus.throw">>
               \/ last.calls = <<"getStatus", "update">>
               \/ last.calls = <<"getStatus", "update.throw">>
          ELSE last.calls = <<>>

C27_Witness ==
  /\ last.kind = "hook"
  /\ last.op = "findByID"
  /\ last.calls = <<"getStatus", "update">>
  /\ last.outcome = "returned"

\* the after-create hook has just returned for a create operation
CreateHookReturned == last.kind = "hook" /\ last.op = "create" /\ last.outcome = "returned"

\* a copy is scheduled for exactly the records the claim names, and when the hook
\* returns no copy has started
CopyScheduledIffGate ==
  CreateHookReturned
    => /\ (\E p \in InFlight : p.kind = "timer" /\ p.doc = last.doc)
            <=> /\ last.doc.stream.readyToStream \in {F, Undef, ""}
                /\ last.doc.stream.videoId \in {Undef, ""}
                /\ StartsWith(last.doc.mimeType, <<"v", "i", "d", "e", "o", "/">>)
       /\ \A p \in InFlight : p.kind # "copy"
       /\ ~copied

\* some run has awaited adapter.copyVideo
CopyVideoCalled ==
  \E p \in InFlight \cup {last} :
    p.pc = "copyVideo" \/ Called(p, "copyVideo") \/ Called(p, "copyVideo.throw")

\* C28: the after-create hook schedules the copy exactly under its
\* condition and returns before the copy starts, and adapter.copyVideo is only
\* called once the record's create operation has completed.
C28_CopyAfterCreateReturned ==
  /\ CopyScheduledIffGate
  /\ CopyVideoCalled => \A p \in InFlight : p.kind # "operation"

\* the jobs waiting in the queue and those task runs have enqueued
EnqueuedJobs ==
  BagToSet(queue)
    \cup {p.enqueued[i] : p \in {q \in InFlight \cup {last} : q.enqueued # <<>>}, i \in {1}}

\* C29: the name queueUpdateStatusTask builds for an adapter is the slug of the
\* task definition of that adapter and of no other; every enqueued job carries the
\* slug of the configured adapter's handler and an input with exactly the fields
\* collectionSlug and documentId.
C29_TaskNameMatchesSlug ==
  /\ \A a, b \in ProviderNames : (QueueTaskName(a) = TaskName(b)) <=> (a = b)
  /\ \A job \in EnqueuedJobs :
       /\ job.task = TaskName(ProviderName)
       /\ DOMAIN job.input = {"collectionSlug", "documentId"}
       /\ job.queue = QueueName

C29_Witness ==
  /\ last.kind = "task"
  /\ Len(last.enqueued) = 1
  /\ last.enqueued[1].task = <<"payloadStreamUpdateStatusFor", "cloudflare_stream">>
  /\ \E p \in InFlight : p.kind = "task"

\* C30: a task run whose host queue call failed ends by returning, with the
\* handler's output for its input; it has enqueued nothing, and the step that ends
\* it leaves the queue as it was, so no successor task exists.
C30_QueueFailureEndsNormally ==
  [][(last'.kind = "task" /\ Called(last', "queue.throw"))
       => /\ last'.outcome = "returned"
          /\ TaskOutput(last').output.data = last'.input
          /\ last'.enqueued = <<>>
          /\ ~Called(last', "queue")
          /\ queue' = queue]_vars

C30_Witness ==
  /\ last.kind = "task"
  /\ Called(last, "queue.throw")
  /\ last.outcome = "returned"
  /\ last.enqueued = <<>>
  /\ queue = EmptyBag
  /\ procs = EmptyBag

\* the task definitions the plugin appended to config.jobs.tasks
AppendedTasks ==
  LET n == Len(GetAllAdapters(config.options)) IN
    [i \in 1..n |-> config.tasks[Len(config.tasks) - n + i]]

\* C31: after plugin setup the task definitions the plugin appended hold at most
\* one definition per slug.
C31_NoSlugCollision ==
  config.installed
    => \A i, j \in 1..Len(AppendedTasks) :
         AppendedTasks[i].slug = AppendedTasks[j].slug => i = j

\* a task run none of whose calls failed
NoFailedCall(p) ==
  \A c \in {"findByID.throw", "getStatus.throw", "update.throw", "queue.throw"} : ~Called(p, c)

\* C32: a task run for which the remote reported readyToStream = false and no call
\* failed has enqueued one successor for the same record, whatever the number of
\* runs before it; the chain of runs is not cut off at the task's retries.
C32_RequeueNotBoundedByRetries ==
  (PolledNotReady(last) /\ NoFailedCall(last))
    => /\ last.outcome = "returned"
       /\ last.enqueued = <<Job(last.input.documentId)>>
       /\ BagIn(Job(last.input.documentId), queue)

C32_Witness ==
  /\ snapshot.runs > UpdateStreamStatusTask(ProviderName).retries + 1
  /\ PolledNotReady(last)
  /\ NoFailedCall(last)
  /\ BagIn(Job(last.input.documentId), queue)

\* C33: a task run that fetched a record whose stream.readyToStream is not false
\* ends by returning its output with findByID as its only call: no adapter call,
\* no store update, nothing enqueued; the step leaves the records as they were
\* and only takes the run's own job from the queue.
C33_ReadyRecordTaskIsNoOp ==
  [][(last'.kind = "task" /\ Called(last', "findByID") /\ last'.doc.stream.readyToStream # F)
       => /\ last'.outcome = "returned"
          /\ TaskOutput(last').output.message = "Update stream status task executed"
          /\ last'.calls = <<"findByID">>
          /\ last'.enqueued = <<>>
          /\ docs' = docs
          /\ queue' = queue (-) SetToBag({Job(last'.input.documentId)})]_vars

C33_Witness ==
  /\ last.kind = "task"
  /\ last.calls = <<"findByID">>
  /\ last.doc.stream.readyToStream = T
  /\ last.outcome = "returned"
  /\ docs[last.doc.id].stream.readyToStream = T

\* the request's protocol and host in front of a stored url
Prefixed(url) == Request.protocol \o <<"/", "/">> \o Request.host \o url

\* url starts with http:// or https://, letter for letter
StartsWithHttp(url) ==
  StartsWith(url, <<"h", "t", "t", "p", ":", "/", "/">>) \/ StartsWith(url, <<"h", "t", "t", "p", "s", ":", "/", "/">>)

\* a copy whose probe resolved without a Location header
ProbeWithoutLocation(p) == p.kind = "copy" /\ Called(p, "fetch.nolocation")

\* a copy that has reached its adapter.copyVideo call
AtCopyVideo(p) ==
  p.kind = "copy" /\ (p.pc = "copyVideo" \/ Called(p, "copyVideo") \/ Called(p, "copyVideo.throw"))

\* the URL handed to adapter.copyVideo, given the URL the stored url resolves to
UrlPassed(p, base) ==
  /\ (p.kind = "copy" /\ p.pc = "fetch") => p.videoUrl = base
  /\ AtCopyVideo(p) =>
       /\ ~p.rsu => p.videoUrl = base
       /\ p.rsu => \/ Called(p, "fetch") /\ p.videoUrl \in Locations
                   \/ Called(p, "fetch.nolocation") /\ p.videoUrl = <<>>
  /\ (ProbeWithoutLocation(p) /\ p.pc = "done") =>
       Called(p, "copyVideo") \/ Called(p, "copyVideo.throw")

\* C34 (as stated): a stored url that starts with http:// or https:// is used as
\* is and any other url is prefixed with the request's protocol and host; with
\* requireSignedURLs the URL passed to adapter.copyVideo is the probe's Location
\* header, or the empty string without one, and adapter.copyVideo is still called.
C34_SourceUrlResolution ==
  \A p \in InFlight \cup {last} :
    UrlPassed(p, IF StartsWithHttp(p.doc.url) THEN p.doc.url ELSE Prefixed(p.doc.url))

\* C34 (amended): the same, with http:// and https:// recognised in any letter
\* case, so that a stored url such as HTTPS://... is used as is too.
C34_SourceUrlResolutionAnyCase ==
  \A p \in InFlight \cup {last} :
    UrlPassed(p, IF StartsWithHttp(LowerCase(p.doc.url)) THEN p.doc.url ELSE Prefixed(p.doc.url))

C34_Witness ==
  /\ ProbeWithoutLocation(last)
  /\ Called(last, "copyVideo")
  /\ last.videoUrl = <<>>
  /\ ~StartsWithHttp(last.doc.url)
  /\ StartsWithHttp(LowerCase(last.doc.url))

\* an adapter call that has ended
AdapterCallEnded(op) == last.kind = "adapter" /\ last.op = op /\ last.pc = "done"

\* C35: a call of the Cloudflare adapter's copyVideo, getStatus or delete has
\* thrown exactly when the provider's response to its request was not ok, and has
\* returned otherwise; a copyVideo call with requireSignedURLs whose copy request
\* succeeded has thrown when the marking request was not ok.
C35_AdapterThrowsIffNotOk ==
  /\ AdapterCallEnded("copyVideo") =>
       /\ last.outcome = "threw" <=> (Called(last, "copy.notok") \/ Called(last, "mark.notok"))
       /\ last.outcome = "returned" <=>
            (Called(last, "copy.ok") /\ ~Called(last, "mark.notok"))
       /\ Called(last, "mark.notok") => (last.rsu /\ Called(last, "copy.ok"))
       /\ (Called(last, "mark.ok") \/ Called(last, "mark.notok")) <=>
            (last.rsu /\ Called(last, "copy.ok") /\ last.url # Undef)
  /\ AdapterCallEnded("getStatus") =>
       /\ last.outcome = "threw" <=> Called(last, "status.notok")
       /\ last.outcome = "returned" <=> Called(last, "status.ok")
  /\ AdapterCallEnded("delete") =>
       /\ last.outcome = "threw" <=> Called(last, "delete.notok")
       /\ last.outcome = "returned" <=> Called(last, "delete.ok")

C35_Witness ==
  /\ AdapterCallEnded("copyVideo")
  /\ last.rsu
  /\ last.calls = <<"copy.ok", "mark.notok">>
  /\ last.outcome = "threw"

\* status tasks pending for document d in queue q and runs ps: queued jobs plus
\* task runs that have not ended
PendingTasks(q, ps, d) ==
  CopiesIn(Job(d), q)
    + BagCardinality([p \in {r \in BagToSet(ps) : r.kind = "task" /\ r.input.documentId = d}
                        |-> CopiesIn(p, ps)])

\* C36: a task run enqueues at most one successor, and no step of a task run
\* raises the number of status tasks pending for a record (queued or running).
C36_NoFanOut ==
  /\ [](\A p \in InFlight \cup {last} : p.kind = "task" => Len(p.enqueued) <= 1)
  /\ [][\A d \in DocIds :
         /\ PendingTasks(queue', procs', d) <= PendingTasks(queue, procs, d)
         /\ CopiesIn(Job(d), queue') <= CopiesIn(Job(d), queue) + 1]_vars

C36_Witness ==
  /\ last.kind = "task"
  /\ Len(last.enqueued) = 1
  /\ CopiesIn(Job("d1"), queue) >= 2
  /\ PendingTasks(queue, procs, "d1") = CopiesIn(Job("d1"), queue)

\* an invocation that is about to call adapter.getStatus or has called it
AtGetStatus(p) ==
  p.pc = "getStatus" \/ Called(p, "getStatus") \/ Called(p, "getStatus.throw")

\* C37: a findByID hook run or a task run calls adapter.getStatus only for a
\* record that carries a videoId, and then the record's copy has succeeded.
C37_GetStatusOnlyWithVideoId ==
  \A p \in InFlight \cup {last} :
    (p.kind \in {"hook", "task"} /\ AtGetStatus(p))
      => (Truthy(p.doc.stream.videoId) /\ copied)

====
